---- MODULE Spec2Model ----
(***************************************************************************)
(* A model of metrics-queue: the AutoIncrementingID allocator, the         *)
(* MetricIndexer registry and the MetricsQueue facade, together with the   *)
(* JavaScript microtask queue on which the deferred parts of a firing run. *)
(*                                                                         *)
(* One action is one synchronous run of JavaScript: either a call made by  *)
(* the application (init, destroy, addEventListener, removeEventListener,  *)
(* performance.mark, performance.measure, a plugin callable) or the job at *)
(* the head of the microtask queue.  Each specification says which calls   *)
(* the application makes and when.                                         *)
(***************************************************************************)
EXTENDS Integers, Sequences, FiniteSets

(***************************************************************************)
(* Bounds of the model.                                                    *)
(***************************************************************************)
\* addEventListener calls and firings (mark, measure and plugin calls) the
\* application makes in one behaviour
MaxOps == 3

Events == {"a", "b"}

\* the events of the dispatch specification
CoreEvents == {"a"}

PluginNames == {"onSync", "onDeferred"}

(***************************************************************************)
(* AutoIncrementingID (types.ts:73-83).                                    *)
(***************************************************************************)
Digits == <<"0", "1", "2", "3", "4", "5", "6", "7", "8", "9">>

RECURSIVE ToString(_)
\* Number.prototype.toString() of a non-negative integer
ToString(n) ==
    IF n < 10 THEN Digits[n + 1] ELSE ToString(n \div 10) \o Digits[(n % 10) + 1]

\* a variant that forgets the increment: `(this.incrementor).toString()`
NextIDNoIncrement(inc) == [id |-> ToString(inc), incrementor |-> inc]

\* a variant that increments before it reads: `(++this.incrementor).toString()`
NextIDPreIncrement(inc) == [id |-> ToString(inc + 1), incrementor |-> inc + 1]

\* get nextID(): `(this.incrementor++).toString()`, the value returned and the
\* counter left behind
NextID(inc) == [id |-> ToString(inc), incrementor |-> inc + 1]

(***************************************************************************)
(* Listener callbacks.  A callback is application code; the model gives it *)
(* one of a few behaviours.  `ev` is the event the callback acts on.       *)
(***************************************************************************)
Noop(ev) == [kind |-> "noop", arg |-> "", ev |-> ev]

\* a listener argument that is no function
NotFunction(ev) == [kind |-> "notFunction", arg |-> "", ev |-> ev]

\* the identifiers the application passes to removeEventListener
IDs == {ToString(n) : n \in 0..(MaxOps - 1)}

Listeners(ev) ==
    {Noop(ev), [kind |-> "throw", arg |-> "", ev |-> ev]}
    \cup {[kind |-> "add", arg |-> c, ev |-> ev] : c \in {"sync"}}
    \cup {[kind |-> "remove", arg |-> id, ev |-> ev] : id \in {"1"}}

\* the ListenerConfig objects the application passes; a field may be absent
Configs ==
    {[p \in {} |-> TRUE]}
    \cup {[passive |-> p] : p \in BOOLEAN}
    \cup {[keepAlive |-> k] : k \in BOOLEAN}
    \cup {[passive |-> p, keepAlive |-> k] : p \in BOOLEAN, k \in BOOLEAN}

\* the configs that name both fields
FullConfigs == {c \in Configs : DOMAIN c = {"passive", "keepAlive"}}

DefaultConfig == [keepAlive |-> FALSE, passive |-> TRUE]

\* a variant that stores the config as given: an absent field reads as falsy
MergeConfigNoDefaults(config) ==
    [f \in {"keepAlive", "passive"} |-> IF f \in DOMAIN config THEN config[f] ELSE FALSE]

\* Object.assign({ keepAlive: false, passive: true }, config)
MergeConfig(config) ==
    [f \in {"keepAlive", "passive"} |->
        IF f \in DOMAIN config THEN config[f] ELSE DefaultConfig[f]]

VARIABLES
    incrementor,        \* AutoIncrementingID.incrementor
    indexers,           \* the MetricIndexer objects ever constructed
    emitter,            \* MetricsQueue.emitter: event -> index into indexers, 0 when absent
    enabled,            \* MetricsQueue.enabled
    isDev,              \* MetricsQueue.isDev
    usePerformanceAPI,  \* MetricsQueue.usePerformanceAPI
    cached,             \* MetricsQueue.mark / MetricsQueue.measure
    plugins,            \* MetricsQueue.plugins: name -> "none" | "sync" | "deferred"
    performance,        \* window.performance.mark / .measure
    nodeEnv,            \* process.env.NODE_ENV
    microtasks,         \* the microtask queue, head first
    calls,              \* history: every listener invocation, in order
    busts,              \* history: every call of MetricIndexer.bust
    issued,             \* history: identifiers returned since the last allocator reset
    removed,            \* history: identifiers whose entry a remove(id) call deleted
    last,               \* history: the call made in the step just taken, its outcome,
                        \*          the errors it handed to an error handler and what
                        \*          its ready-callback was called with and found
    ops                 \* history: addEventListener calls and firings made so far

vars ==
    <<incrementor, indexers, emitter, enabled, isDev, usePerformanceAPI, cached,
      plugins, performance, nodeEnv, microtasks, calls, busts, issued, removed, last, ops>>

(***************************************************************************)
(* The part of the state a synchronous run reads and writes, as a record.  *)
(* `err` is the exception in flight ("" when none), `ret` the value the    *)
(* last call returned.                                                     *)
(***************************************************************************)
Cur ==
    [incrementor |-> incrementor, indexers |-> indexers, emitter |-> emitter,
     enabled |-> enabled, isDev |-> isDev, microtasks |-> microtasks,
     calls |-> calls, busts |-> busts, issued |-> issued, removed |-> removed,
     err |-> "", ret |-> "undefined"]

Throw(S, e) == [S EXCEPT !.err = e]

(***************************************************************************)
(* Map<string, MetricEvent> (MetricIndexer.queue).  A Map keeps its        *)
(* entries in insertion order; forEach walks that list as it is at each    *)
(* step, so it visits entries appended during the walk and passes over     *)
(* entries deleted before it reaches them.  A deleted entry stays in the   *)
(* list as a dead slot until the run ends.                                 *)
(***************************************************************************)
MapHas(q, id) == \E i \in 1..Len(q) : q[i].live /\ q[i].id = id

\* Map.prototype.set: a live key keeps its place, a new key goes last
MapSet(q, id, entry) ==
    IF MapHas(q, id)
    THEN [i \in 1..Len(q) |-> IF q[i].live /\ q[i].id = id THEN entry ELSE q[i]]
    ELSE Append(q, entry)

MapDelete(q, id) ==
    [i \in 1..Len(q) |-> IF q[i].id = id THEN [q[i] EXCEPT !.live = FALSE] ELSE q[i]]

MapSize(q) == Cardinality({i \in 1..Len(q) : q[i].live})

MapKeys(q) == {q[i].id : i \in {j \in 1..Len(q) : q[j].live}}

\* a MetricIndexer as constructed.  `added`, `removed` and `retired` are
\* history: the add calls made on it, the remove calls that deleted an entry
\* of it, the entries a bust delivery deleted from it
NewIndexer ==
    [queue |-> <<>>, silenceWarnings |-> FALSE, added |-> 0, removed |-> 0, retired |-> 0]

(***************************************************************************)
(* MetricIndexer (MetricIndexer.ts).  r is an index into S.indexers.       *)
(***************************************************************************)
\* add(listener, config): the identifier is left in S.ret
IndexerAdd(S, r, listener, config) ==
    LET n == NextID(S.incrementor)
        entry == [id |-> n.id, listener |-> listener,
                  config |-> MergeConfig(config), live |-> TRUE]
    IN  [S EXCEPT !.incrementor = n.incrementor,
                  !.indexers[r].queue = MapSet(@, n.id, entry),
                  !.indexers[r].added = @ + 1,
                  !.issued = Append(@, n.id),
                  !.ret = n.id]

\* remove(id)
IndexerRemove(S, r, id) ==
    IF MapHas(S.indexers[r].queue, id)
    THEN [S EXCEPT !.indexers[r].queue = MapDelete(@, id),
                   !.indexers[r].removed = @ + 1,
                   !.removed = @ \cup {id},
                   !.ret = "true"]
    ELSE [S EXCEPT !.ret = "false"]

\* get(id): the entry stored under id, if there is one
IndexerGet(S, r, id) ==
    LET q == S.indexers[r].queue IN
    IF MapHas(q, id)
    THEN LET e == q[CHOOSE i \in 1..Len(q) : q[i].live /\ q[i].id = id]
         IN  [found |-> TRUE, listener |-> e.listener, config |-> e.config]
    ELSE [found |-> FALSE, listener |-> Noop(""), config |-> DefaultConfig]

\* get size()
IndexerSize(S, r) == MapSize(S.indexers[r].queue)

\* the threshold of chubbinessCheck: it throws when size > ChubbyAbove
ChubbyAbove == 19

\* a variant whose threshold is one higher: `this.queue.size > 20`
ChubbinessCheckThrowsLate(S, r) ==
    ~S.indexers[r].silenceWarnings /\ IndexerSize(S, r) > ChubbyAbove + 1

\* chubbinessCheck(event): whether it throws
ChubbinessCheckThrows(S, r) ==
    ~S.indexers[r].silenceWarnings /\ IndexerSize(S, r) > ChubbyAbove

(***************************************************************************)
(* MetricsQueue: the listener surface (MetricsQueue.ts:185-267).           *)
(***************************************************************************)
\* validateListener(event, callback): the error it throws, "" when none
ValidateListener(S, event, listener) ==
    IF ~S.enabled THEN "NotInitialized"
    ELSE IF event = "" THEN "MissingEventName"
    ELSE IF listener.kind = "notFunction" THEN "InvalidCallback"
    ELSE ""

\* `event in this.emitter`
InEmitter(S, event) == event \in DOMAIN S.emitter /\ S.emitter[event] # 0

\* a variant that deletes the Registry whatever its size
CheckForEmptyIndexerAlways(S, key) ==
    IF ~InEmitter(S, key) THEN Throw(S, "TypeError")
    ELSE [S EXCEPT !.emitter[key] = 0]

\* checkForEmptyIndexer(key): this.emitter[key].size of an absent key is a TypeError
CheckForEmptyIndexer(S, key) ==
    IF ~InEmitter(S, key) THEN Throw(S, "TypeError")
    ELSE IF IndexerSize(S, S.emitter[key]) = 0
         THEN [S EXCEPT !.emitter[key] = 0]
         ELSE S

\* a variant that validates and checks the capacity whatever the mode
AddEventListenerStrict(S, event, listener, config) ==
    LET v == ValidateListener(S, event, listener) IN
    IF v # "" THEN Throw(S, v)
    ELSE IF InEmitter(S, event)
    THEN IF ChubbinessCheckThrows(S, S.emitter[event])
         THEN Throw(S, "CapacityWarning")
         ELSE IndexerAdd(S, S.emitter[event], listener, config)
    ELSE LET r == Len(S.indexers) + 1
             S1 == [S EXCEPT !.indexers = Append(@, NewIndexer), !.emitter[event] = r]
         IN  IndexerAdd(S1, r, listener, config)

\* addEventListener(event, callback, config)
AddEventListener(S, event, listener, config) ==
    LET v == ValidateListener(S, event, listener) IN
    IF S.isDev /\ v # "" THEN Throw(S, v)
    ELSE IF InEmitter(S, event)
    THEN IF S.isDev /\ ChubbinessCheckThrows(S, S.emitter[event])
         THEN Throw(S, "CapacityWarning")
         ELSE IndexerAdd(S, S.emitter[event], listener, config)
    ELSE LET r == Len(S.indexers) + 1
             S1 == [S EXCEPT !.indexers = Append(@, NewIndexer), !.emitter[event] = r]
         IN  IndexerAdd(S1, r, listener, config)

\* a variant that returns what MetricIndexer.remove returned
RemoveEventListenerForwarding(S, event, callbackID) ==
    IF InEmitter(S, event)
    THEN CheckForEmptyIndexer(IndexerRemove(S, S.emitter[event], callbackID), event)
    ELSE [S EXCEPT !.ret = "null"]

\* a variant that looks the identifier up in every Registry
RemoveEventListenerAnywhere(S, event, callbackID) ==
    IF InEmitter(S, event)
    THEN LET holders == {h \in 1..Len(S.indexers) : MapHas(S.indexers[h].queue, callbackID)}
             r == IF holders = {} THEN S.emitter[event] ELSE CHOOSE h \in holders : TRUE
             S1 == CheckForEmptyIndexer(IndexerRemove(S, r, callbackID), event)
         IN  [S1 EXCEPT !.ret = "true"]
    ELSE [S EXCEPT !.ret = "null"]

\* removeEventListener(event, callbackID)
RemoveEventListener(S, event, callbackID) ==
    IF InEmitter(S, event)
    THEN LET S1 == CheckForEmptyIndexer(IndexerRemove(S, S.emitter[event], callbackID), event)
         IN  [S1 EXCEPT !.ret = "true"]
    ELSE [S EXCEPT !.ret = "null"]

(***************************************************************************)
(* Invoking a listener: `listener(...params)` in bust.  The invocation is  *)
(* logged, then the callback's own code runs.                              *)
(***************************************************************************)
AddedConfig(arg) == [passive |-> (arg = "passive")]

CallListener(S, e, b, sync, params) ==
    LET S1 == [S EXCEPT !.calls = Append(@, [id |-> e.id, bust |-> b, sync |-> sync,
                                              listener |-> e.listener,
                                              config |-> e.config, params |-> params,
                                              cancelled |-> e.id \in S.removed])]
        l == e.listener
    IN  CASE l.kind = "throw" -> Throw(S1, "ListenerError")
          [] l.kind = "add" -> AddEventListener(S1, l.ev, Noop(l.ev), AddedConfig(l.arg))
          [] l.kind = "remove" -> RemoveEventListener(S1, l.ev, l.arg)
          [] OTHER -> S1

(***************************************************************************)
(* MetricIndexer.bust (MetricIndexer.ts:68-91).                            *)
(***************************************************************************)
\* the job a passive entry's async closure leaves on the microtask queue at
\* its `await Promise.resolve()`; it holds what the closure captured
DeliverTask(e, r, b, params) ==
    [type |-> "deliver", bust |-> b, reg |-> r, entry |-> e, params |-> params]

\* `this.queue.delete(id)` in bust (lines 77 and 84)
Retire(S, r, id) ==
    IF MapHas(S.indexers[r].queue, id)
    THEN [S EXCEPT !.indexers[r].queue = MapDelete(@, id),
                   !.indexers[r].retired = @ + 1]
    ELSE S

\* lines 82-85: the non-passive branch
BustSync(S, r, e, b, params) ==
    LET S1 == CallListener(S, e, b, TRUE, params) IN
    IF S1.err # "" THEN S1
    ELSE IF ~e.config.keepAlive
         THEN Retire(S1, r, e.id)
         ELSE S1

\* a variant of the passive branch whose closure does not await before the call
BustPassiveInline(S, r, e, b, params) == BustSync(S, r, e, b, params)

\* lines 71-80: the passive branch, up to the closure's await
BustPassive(S, r, e, b, params) ==
    [S EXCEPT !.microtasks = Append(@, DeliverTask(e, r, b, params)),
              !.busts[b].pending = @ + 1,
              !.busts[b].scheduled = @ \cup {e.id}]

RECURSIVE ForEach(_, _, _, _, _)
\* this.queue.forEach(...) from slot i on; an exception ends the walk
ForEach(S, r, i, b, params) ==
    IF S.err # "" \/ i > Len(S.indexers[r].queue) THEN S
    ELSE LET e == S.indexers[r].queue[i] IN
         IF ~e.live THEN ForEach(S, r, i + 1, b, params)
         ELSE IF e.config.passive
              THEN ForEach(BustPassive(S, r, e, b, params), r, i + 1, b, params)
              ELSE ForEach(BustSync(S, r, e, b, params), r, i + 1, b, params)

\* bust(...params) up to its first suspension.  bust is an async function:
\* an exception of the walk rejects the promise it returns.
Bust(S, r, event, params) ==
    LET b == Len(S.busts) + 1
        S0 == [S EXCEPT !.busts = Append(@,
                   [reg |-> r, event |-> event, params |-> params,
                    entries |-> SelectSeq(S.indexers[r].queue, LAMBDA e : e.live),
                    issuedAtStart |-> Len(S.issued), sizeAtReturn |-> 0,
                    scheduled |-> {}, pending |-> 0, state |-> "running"])]
        S1 == ForEach(S0, r, 1, b, params)
        S2 == [S1 EXCEPT !.busts[b].sizeAtReturn = IndexerSize(S1, r)]
    IN  IF S2.err # "" THEN [S2 EXCEPT !.err = "", !.busts[b].state = "rejected"]
        ELSE IF S2.busts[b].pending > 0 THEN [S2 EXCEPT !.busts[b].state = "waiting"]
        ELSE [S2 EXCEPT !.busts[b].state = "fulfilled"]

\* the job that resumes onMark / onMeasure / onPluginEvent after `await bust(...)`
PruneTask(event, b, rejected) ==
    [type |-> "prune", event |-> event, bust |-> b, rejected |-> rejected]

\* a variant that gives an event without a Registry an empty one
OnEventCreating(S, event, params) ==
    IF ~InEmitter(S, event)
    THEN [S EXCEPT !.indexers = Append(@, NewIndexer), !.emitter[event] = Len(S.indexers) + 1]
    ELSE LET S1 == Bust(S, S.emitter[event], event, params)
             b == Len(S1.busts)
         IN  IF S1.busts[b].state = "waiting" THEN S1
             ELSE [S1 EXCEPT !.microtasks =
                       Append(@, PruneTask(event, b, S1.busts[b].state = "rejected"))]

\* onMark / onMeasure / onPluginEvent (MetricsQueue.ts:136-177) up to the await
OnEvent(S, event, params) ==
    IF ~InEmitter(S, event) THEN S
    ELSE LET S1 == Bust(S, S.emitter[event], event, params)
             b == Len(S1.busts)
         IN  IF S1.busts[b].state = "waiting" THEN S1
             ELSE [S1 EXCEPT !.microtasks =
                       Append(@, PruneTask(event, b, S1.busts[b].state = "rejected"))]

(***************************************************************************)
(* The state after the classes are loaded (MetricsQueue.ts:26-32,          *)
(* types.ts:74) and before any call.                                       *)
(***************************************************************************)
\* process.env.NODE_ENV as init and destroy read it
NodeEnvs == {"production", "development"}

\* `last` after a step that is no call of the application
NoCall ==
    [op |-> "", args |-> <<>>, ret |-> "undefined", err |-> "", host |-> "", caught |-> <<>>,
     ready |-> <<>>]

\* the keys the Event Table may get: the event names and the empty name
Names == Events \cup {""}

\* everything but the environment the process was started in
InitState ==
    /\ incrementor = 0
    /\ indexers = <<>>
    /\ emitter = [e \in Names |-> 0]
    /\ enabled = FALSE
    /\ isDev = FALSE
    /\ usePerformanceAPI = TRUE
    /\ cached = [mark |-> "null", measure |-> "null"]
    /\ plugins = {}
    /\ performance = [mark |-> "native", measure |-> "native"]
    /\ microtasks = <<>>
    /\ calls = <<>>
    /\ busts = <<>>
    /\ issued = <<>>
    /\ removed = {}
    /\ last = NoCall
    /\ ops = 0

\* a process started in a development environment
Init == InitState /\ nodeEnv = "development"

\* a process started in either environment
InitEnv == InitState /\ nodeEnv \in NodeEnvs

\* the end of a synchronous run: the dead slots of the Maps are dropped
Compact(ix) ==
    [r \in 1..Len(ix) |-> [ix[r] EXCEPT !.queue = SelectSeq(@, LAMBDA e : e.live)]]

Commit(S) ==
    /\ incrementor' = S.incrementor
    /\ indexers' = Compact(S.indexers)
    /\ emitter' = S.emitter
    /\ microtasks' = S.microtasks
    /\ calls' = S.calls
    /\ busts' = S.busts
    /\ issued' = S.issued
    /\ removed' = S.removed

facade == <<enabled, isDev, usePerformanceAPI, cached, plugins, performance, nodeEnv>>

(***************************************************************************)
(* Calls of the application.                                               *)
(***************************************************************************)
\* the plugin callables: a plugin is declared with processAfterCallStack or without
ProcessAfterCallStack(plug) == plug = "onDeferred"

Middleware == [mark |-> "middleware", measure |-> "middleware"]

\* what the application passes as onReady: nothing, or a function
ReadyCallbacks == {"undefined", "function"}

\* `onReady(this)` (MetricsQueue.ts:45-47): what the ready-callback is called
\* with and what it finds.  init has set enabled, isDev and usePerformanceAPI
\* by then, and has not yet touched the Performance API nor the plugins.
ReadyCall(usePerf) ==
    [arg |-> "MetricsQueue", enabled |-> TRUE, usePerformanceAPI |-> usePerf,
     performance |-> performance, plugins |-> plugins]

\* MetricsQueue.init({ onReady, plugins, usePerformanceAPI }) (MetricsQueue.ts:41-59)
InitWith(declared, usePerf, env, onReady) ==
    /\ enabled' = TRUE
    /\ isDev' = (env # "production")
    /\ usePerformanceAPI' = usePerf
    /\ cached' = IF usePerf THEN performance ELSE cached
    /\ performance' = IF usePerf THEN Middleware ELSE performance
    /\ plugins' = plugins \cup declared
    /\ last' = [NoCall EXCEPT !.op = "init",
                              !.args = <<declared, usePerf, onReady>>,
                              !.ready = IF onReady = "function"
                                        THEN <<ReadyCall(usePerf)>> ELSE <<>>]
    /\ UNCHANGED <<nodeEnv, incrementor, indexers, emitter, microtasks, calls, busts, issued,
                   removed, ops>>

\* MetricsQueue.init({ plugins, usePerformanceAPI }): no ready-callback
InitQueue(declared, usePerf, env) == InitWith(declared, usePerf, env, "undefined")

\* MetricsQueue.destroy() (MetricsQueue.ts:298-309)
Destroy(env) ==
    /\ performance' = IF enabled /\ usePerformanceAPI THEN cached ELSE performance
    /\ enabled' = FALSE
    /\ usePerformanceAPI' = TRUE
    /\ cached' = [mark |-> "null", measure |-> "null"]
    /\ emitter' = [e \in Names |-> 0]
    /\ isDev' = (env # "production")
    /\ last' = [NoCall EXCEPT !.op = "destroy"]
    /\ UNCHANGED <<nodeEnv, incrementor, indexers, plugins, microtasks, calls, busts, issued,
                   removed, ops>>

\* MetricsQueue.addEventListener(event, listener, config) (MetricsQueue.ts:216-229)
AddListener(event, listener, config) ==
    /\ ops' = ops + 1
    /\ LET S == AddEventListener(Cur, event, listener, config) IN
       /\ Commit(S)
       /\ last' = [op |-> "addEventListener", args |-> <<event, listener, config>>,
                   ret |-> IF S.err = "" THEN S.ret ELSE "undefined", err |-> S.err,
                   host |-> "", caught |-> <<>>, ready |-> <<>>]
    /\ UNCHANGED facade

\* MetricsQueue.removeEventListener(event, id) (MetricsQueue.ts:237-244)
RemoveListener(event, id) ==
    /\ LET S == RemoveEventListener(Cur, event, id) IN
       /\ Commit(S)
       /\ last' = [op |-> "removeEventListener", args |-> <<event, id>>,
                   ret |-> S.ret, err |-> S.err, host |-> "",
                   caught |-> <<>>, ready |-> <<>>]
    /\ UNCHANGED <<facade, ops>>

\* the job processAfterCallStack leaves on the microtask queue (MetricsQueue.ts:197-200)
FireTask(event, params) == [type |-> "fire", event |-> event, params |-> params]

\* a variant that calls the callback at once
AfterCallStackInline(S, event, params) == OnEvent(S, event, params)

\* processAfterCallStack(callback) (MetricsQueue.ts:197-200) for a callback that
\* calls onMark / onMeasure / onPluginEvent: up to its await
AfterCallStack(S, event, params) ==
    [S EXCEPT !.microtasks = Append(@, FireTask(event, params))]

\* what the host's mark / measure returns
HostResult(kind) == IF kind = "mark" THEN "PerformanceMark" ELSE "PerformanceMeasure"

HostArgs(kind, name) == IF kind = "mark" THEN <<name>> ELSE <<name, "start">>

\* what the host's mark / measure does when it is called
HostOutcomes == {"returns", "throws"}

\* a variant that lets the failure of the wrapped function out
SafetyWrapRethrow(host, value) ==
    IF host = "throws" THEN [ret |-> "null", err |-> "HostError"]
    ELSE [ret |-> value, err |-> ""]

\* safetyWrap(func) (MetricsQueue.ts:276-292) around the cached host function:
\* the value left in performanceMark / performanceMeasure, and the error that
\* leaves safetyWrap
SafetyWrap(host, value) ==
    IF host = "throws" THEN [ret |-> "null", err |-> ""]
    ELSE [ret |-> value, err |-> ""]

\* a variant that busts with the arguments only
BustParamsArgsOnly(result, args) == args

\* the parameters onMark / onMeasure give to bust (MetricsQueue.ts:142, 160)
BustParams(result, args) == <<result>> \o args

\* performance.mark(name) / performance.measure(name, "start") once intercepted:
\* markMiddleware / measureMiddlware (MetricsQueue.ts:89-127); an error that
\* leaves safetyWrap leaves the middleware before it schedules anything
TimingHost(kind, name, host) ==
    /\ ops < MaxOps
    /\ performance[kind] = "middleware"
    /\ cached[kind] # "middleware"
    /\ LET w == IF cached[kind] = "native" THEN SafetyWrap(host, HostResult(kind))
                ELSE [ret |-> "null", err |-> ""]
           S == IF w.err # "" THEN Cur
                ELSE AfterCallStack(Cur, name, BustParams(w.ret, HostArgs(kind, name)))
       IN
       /\ Commit(S)
       /\ last' = [op |-> kind, args |-> HostArgs(kind, name),
                   ret |-> IF w.err # "" THEN "undefined" ELSE w.ret, err |-> w.err,
                   host |-> host, caught |-> <<>>, ready |-> <<>>]
    /\ ops' = ops + 1
    /\ UNCHANGED facade

\* the same with a host function that returns
Timing(kind, name) == TimingHost(kind, name, "returns")

PluginArgs == {<<"metric">>}

\* a variant that forwards the event name too
PluginBustParamsWithName(event, args) == <<event>> \o args

\* onPluginEvent(metric, ...args) (MetricsQueue.ts:172-174): `bust(...args)`
PluginBustParams(event, args) == args

\* MetricsQueue.plugins[plug](event, ...args) (MetricsQueue.ts:68-80)
Plugin(plug, event, args) ==
    /\ ops < MaxOps
    /\ plug \in plugins
    /\ LET S == IF ProcessAfterCallStack(plug)
                THEN AfterCallStack(Cur, event, PluginBustParams(event, args))
                ELSE OnEvent(Cur, event, PluginBustParams(event, args))
       IN  Commit(S)
    /\ last' = [op |-> plug, args |-> <<event>> \o args, ret |-> "promise", err |-> "",
                host |-> "", caught |-> <<>>, ready |-> <<>>]
    /\ ops' = ops + 1
    /\ UNCHANGED facade

(***************************************************************************)
(* MetricsQueue.safetyWrap(func, args, catchFN) (MetricsQueue.ts:276-292), *)
(* called by the application.                                              *)
(***************************************************************************)
\* the functions the application wraps: one returns its first argument, one
\* throws
WrapFuncs == {"first", "throws"}

WrapArgs == {<<>>, <<"hello">>, <<"hello", "bye">>}

\* what it passes as catchFN: nothing, a function that returns, a value that
\* is no function
CatchFNs == {"undefined", "function", "notFunction"}

\* func(...args)
Apply(func, args) ==
    IF func = "throws" THEN [ret |-> "undefined", err |-> "TypeError"]
    ELSE [ret |-> IF args = <<>> THEN "undefined" ELSE args[1], err |-> ""]

\* a variant whose catch block calls catchFN and throws the error again
SafetyWrapRaising(func, args, catchFN) ==
    LET r == Apply(func, args) IN
    IF r.err = "" THEN [ret |-> r.ret, err |-> "", caught |-> <<>>]
    ELSE [ret |-> "undefined", err |-> r.err,
          caught |-> IF catchFN = "function" THEN <<r.err>> ELSE <<>>]

\* safetyWrap(func, args, catchFN): what it returns or throws, and the errors
\* it hands to catchFN
SafetyWrapWith(func, args, catchFN) ==
    LET r == Apply(func, args) IN
    IF r.err = "" THEN [ret |-> r.ret, err |-> "", caught |-> <<>>]
    ELSE [ret |-> "null", err |-> "",
          caught |-> IF catchFN = "function" THEN <<r.err>> ELSE <<>>]

CallSafetyWrap(func, args, catchFN) ==
    /\ ops < MaxOps
    /\ LET w == SafetyWrapWith(func, args, catchFN) IN
       last' = [op |-> "safetyWrap", args |-> <<func, args, catchFN>>,
                ret |-> w.ret, err |-> w.err, host |-> "", caught |-> w.caught,
                ready |-> <<>>]
    /\ ops' = ops + 1
    /\ UNCHANGED <<incrementor, indexers, emitter, microtasks, calls, busts, issued, removed,
                   facade>>

(***************************************************************************)
(* The jobs of the microtask queue.                                        *)
(***************************************************************************)
Job == Head(microtasks)

Popped == [Cur EXCEPT !.microtasks = Tail(@)]

\* the deferred call of onMark / onMeasure / onPluginEvent
RunFire ==
    /\ microtasks # <<>> /\ Job.type = "fire"
    /\ LET S == OnEvent(Popped, Job.event, Job.params) IN Commit(S)
    /\ last' = NoCall
    /\ UNCHANGED <<facade, ops>>

\* the rest of a passive entry's closure (MetricIndexer.ts:75-78); its promise
\* settles either way, which queues the reaction of Promise.allSettled when
\* bust reached line 89 (a walk that threw never did)
Deliver(S, t) ==
    LET S1 == CallListener(S, t.entry, t.bust, FALSE, t.params)
        S2 == IF S1.err # "" THEN [S1 EXCEPT !.err = ""]
              ELSE IF ~t.entry.config.keepAlive
                   THEN Retire(S1, t.reg, t.entry.id)
                   ELSE S1
    IN  IF S2.busts[t.bust].state = "waiting"
        THEN [S2 EXCEPT !.microtasks = Append(@, [type |-> "settle", bust |-> t.bust])]
        ELSE S2

RunDeliver ==
    /\ microtasks # <<>> /\ Job.type = "deliver"
    /\ LET S == Deliver(Popped, Job) IN Commit(S)
    /\ last' = NoCall
    /\ UNCHANGED <<facade, ops>>

\* Promise.allSettled's reaction to one settled promise; the last one
\* resolves the promise bust awaits (MetricIndexer.ts:88-90)
Settle(S, t) ==
    LET S1 == [S EXCEPT !.busts[t.bust].pending = @ - 1] IN
    IF S1.busts[t.bust].pending = 0
    THEN [S1 EXCEPT !.microtasks = Append(@, [type |-> "resume", bust |-> t.bust])]
    ELSE S1

RunSettle ==
    /\ microtasks # <<>> /\ Job.type = "settle"
    /\ Commit(Settle(Popped, Job))
    /\ last' = NoCall
    /\ UNCHANGED <<facade, ops>>

\* bust resumes after its await and returns: its promise is fulfilled
Resume(S, t) ==
    [S EXCEPT !.busts[t.bust].state = "fulfilled",
              !.microtasks = Append(@, PruneTask(S.busts[t.bust].event, t.bust, FALSE))]

RunResume ==
    /\ microtasks # <<>> /\ Job.type = "resume"
    /\ Commit(Resume(Popped, Job))
    /\ last' = NoCall
    /\ UNCHANGED <<facade, ops>>

\* onMark / onMeasure / onPluginEvent resumes after `await bust(...)`: a
\* rejected bust ends it, else it runs checkForEmptyIndexer
Prune(S, t) ==
    IF t.rejected THEN [S EXCEPT !.busts[t.bust].state = "failed"]
    ELSE LET S1 == CheckForEmptyIndexer(S, t.event) IN
         IF S1.err # "" THEN [S1 EXCEPT !.err = "", !.busts[t.bust].state = "pruneError"]
         ELSE [S1 EXCEPT !.busts[t.bust].state = "done"]

RunPrune ==
    /\ microtasks # <<>> /\ Job.type = "prune"
    /\ Commit(Prune(Popped, Job))
    /\ last' = NoCall
    /\ UNCHANGED <<facade, ops>>

(***************************************************************************)
(* The dispatch specification.  The application first initialises the      *)
(* facade, once, in development mode, with both plugins declared and the   *)
(* Performance API intercepted; it makes its calls from a script, and the  *)
(* microtask queue drains before its next script runs.                     *)
(***************************************************************************)
\* the listeners the application registers: a callback that does nothing,
\* under every config; a callback that acts, as a one-shot listener
CoreRegistrations(e) ==
    {x \in Listeners(e) \X FullConfigs : x[1].kind = "noop" \/ ~x[2].keepAlive}

Script == microtasks = <<>> \/ last.op # ""

Next ==
    \/ Script /\ ~enabled /\ InitQueue(PluginNames, TRUE, "development")
    \/ \E e \in CoreEvents : \E x \in CoreRegistrations(e) :
           Script /\ enabled /\ ops < MaxOps /\ AddListener(e, x[1], x[2])
    \/ \E e \in CoreEvents, id \in IDs : Script /\ enabled /\ RemoveListener(e, id)
    \/ \E e \in CoreEvents : Script /\ Timing("mark", e)
    \/ \E e \in CoreEvents, a \in PluginArgs : Script /\ Plugin("onSync", e, a)
    \/ RunFire
    \/ RunDeliver
    \/ RunSettle
    \/ RunResume
    \/ RunPrune

Spec == Init /\ [][Next]_vars

(***************************************************************************)
(* The allocator specification.  Before init the facade validates nothing  *)
(* (isDev is false), so addEventListener is MetricIndexer.add on the       *)
(* event's registry; the application resets the allocator at will.         *)
(***************************************************************************)
\* add calls the application makes in one behaviour
MaxAllocs == 12

\* AutoIncrementingID.destroy() (types.ts:80-82)
ResetAllocator ==
    /\ incrementor' = 0
    /\ issued' = <<>>
    /\ last' = [NoCall EXCEPT !.op = "AutoIncrementingID.destroy"]
    /\ UNCHANGED <<indexers, emitter, microtasks, calls, busts, removed, facade, ops>>

NextAlloc ==
    \/ \E e \in Events : ops < MaxAllocs /\ AddListener(e, Noop(e), DefaultConfig)
    \/ incrementor > 0 /\ ResetAllocator

SpecAlloc == Init /\ [][NextAlloc]_vars

(***************************************************************************)
(* The Event Table specification: listeners that only return, on two       *)
(* events, registered, removed and fired (by the synchronous plugin) in    *)
(* any order; the allocator is never reset.                                *)
(***************************************************************************)
\* the configs of the listeners: a deferred one-shot, a synchronous keepAlive
TableConfigs == {DefaultConfig, [keepAlive |-> TRUE, passive |-> FALSE]}

NextTable ==
    \/ Script /\ ~enabled /\ InitQueue(PluginNames, TRUE, nodeEnv)
    \/ \E e \in Events, c \in TableConfigs :
           Script /\ enabled /\ ops < MaxOps /\ AddListener(e, Noop(e), c)
    \/ \E e \in Events, id \in IDs : Script /\ enabled /\ RemoveListener(e, id)
    \/ \E e \in Events, a \in PluginArgs : Script /\ Plugin("onSync", e, a)
    \/ RunDeliver
    \/ RunSettle
    \/ RunResume
    \/ RunPrune

SpecTable == Init /\ [][NextTable]_vars

(***************************************************************************)
(* The registration specification: listeners registered under every shape  *)
(* of config, before and after init, and removed.                          *)
(***************************************************************************)
NextAdd ==
    \/ ~enabled /\ InitQueue(PluginNames, TRUE, nodeEnv)
    \/ \E e \in Events, c \in Configs : ops < MaxOps /\ AddListener(e, Noop(e), c)
    \/ \E e \in Events, id \in IDs : RemoveListener(e, id)

SpecAdd == Init /\ [][NextAdd]_vars

(***************************************************************************)
(* The capacity specification: a process started in either environment     *)
(* registers listeners on one event until its Registry is past the         *)
(* capacity threshold; early on it also passes invalid arguments and       *)
(* destroys the facade.                                                    *)
(***************************************************************************)
\* addEventListener calls the application makes in one behaviour
MaxAdds == 22

\* the invalid registrations: no event name, no function
InvalidRegistrations == {<<"", Noop("")>>, <<"a", NotFunction("a")>>}

NextCapacity ==
    \/ ~enabled /\ InitQueue(PluginNames, FALSE, nodeEnv)
    \/ enabled /\ ops < MaxOps /\ Destroy(nodeEnv)
    \/ ops < MaxAdds /\ AddListener("a", Noop("a"), DefaultConfig)
    \/ \E x \in InvalidRegistrations : ops < MaxOps /\ AddListener(x[1], x[2], DefaultConfig)

SpecCapacity == InitEnv /\ [][NextCapacity]_vars

(***************************************************************************)
(* The firing specification: listeners that only return, on one event,     *)
(* fired by the intercepted mark and measure (whose host function returns  *)
(* or throws) and by both plugins, with one or two arguments after the     *)
(* event name.                                                             *)
(***************************************************************************)
\* the arguments the application gives a plugin callable after the event name
FiringArgs == PluginArgs \cup {<<"m1", "m2">>}

TimingKinds == {"mark", "measure"}

NextFiring ==
    \/ Script /\ ~enabled /\ InitQueue(PluginNames, TRUE, nodeEnv)
    \/ \E e \in CoreEvents, c \in TableConfigs :
           Script /\ enabled /\ ops < MaxOps /\ AddListener(e, Noop(e), c)
    \/ \E k \in TimingKinds, e \in CoreEvents, h \in HostOutcomes :
           Script /\ TimingHost(k, e, h)
    \/ \E p \in PluginNames, e \in CoreEvents, a \in FiringArgs : Script /\ Plugin(p, e, a)
    \/ RunFire
    \/ RunDeliver
    \/ RunSettle
    \/ RunResume
    \/ RunPrune

SpecFiring == Init /\ [][NextFiring]_vars

(***************************************************************************)
(* The wrapper specification: the application calls safetyWrap itself and  *)
(* through the intercepted mark and measure, whose host function returns   *)
(* or throws.                                                              *)
(***************************************************************************)
NextWrap ==
    \/ Script /\ ~enabled /\ InitQueue(PluginNames, TRUE, nodeEnv)
    \/ \E f \in WrapFuncs, a \in WrapArgs, c \in CatchFNs : Script /\ CallSafetyWrap(f, a, c)
    \/ \E k \in TimingKinds, e \in CoreEvents, h \in HostOutcomes :
           Script /\ TimingHost(k, e, h)
    \/ RunFire

SpecWrap == Init /\ [][NextWrap]_vars

(***************************************************************************)
(* The lifecycle specification: a process started in either environment    *)
(* initialises the facade any number of times, with or without plugins     *)
(* and the Performance API, destroys it, and registers and fires in        *)
(* between.                                                                *)
(***************************************************************************)
\* the plugins an init call declares
DeclaredPlugins == {{}, PluginNames}

NextLifecycle ==
    \/ \E d \in DeclaredPlugins, u \in BOOLEAN, f \in ReadyCallbacks :
           Script /\ InitWith(d, u, nodeEnv, f)
    \/ Script /\ Destroy(nodeEnv)
    \/ \E c \in TableConfigs :
           Script /\ ops < MaxOps /\ AddListener("a", Noop("a"), c)
    \/ Script /\ Timing("mark", "a")
    \/ \E p \in PluginNames : Script /\ Plugin(p, "a", <<"metric">>)
    \/ RunFire
    \/ RunDeliver
    \/ RunSettle
    \/ RunResume
    \/ RunPrune

SpecLifecycle == InitEnv /\ [][NextLifecycle]_vars

(***************************************************************************)
(* The Registry specification: before init addEventListener is             *)
(* MetricIndexer.add on the event's Registry; the application fills one    *)
(* Registry past the capacity threshold, silences its warnings and resets  *)
(* it as the tests of MetricIndexer do, and calls chubbinessCheck on it.   *)
(***************************************************************************)
\* metricIndexer["silenceWarnings"] = true
SilenceWarnings(r) ==
    /\ r \in 1..Len(indexers)
    /\ indexers' = [indexers EXCEPT ![r].silenceWarnings = TRUE]
    /\ last' = [NoCall EXCEPT !.op = "silenceWarnings", !.args = <<r>>]
    /\ UNCHANGED <<incrementor, emitter, microtasks, calls, busts, issued, removed, facade, ops>>

\* MetricIndexer.destroy() (MetricIndexer.ts:120-123); the ledger starts anew
IndexerDestroy(r) ==
    /\ r \in 1..Len(indexers)
    /\ indexers' = [indexers EXCEPT ![r] = NewIndexer]
    /\ last' = [NoCall EXCEPT !.op = "MetricIndexer.destroy", !.args = <<r>>]
    /\ UNCHANGED <<incrementor, emitter, microtasks, calls, busts, issued, removed, facade, ops>>

\* MetricIndexer.chubbinessCheck(event) (MetricIndexer.ts:105-114)
ChubbinessCheck(r) ==
    /\ r \in 1..Len(indexers)
    /\ last' = [NoCall EXCEPT !.op = "chubbinessCheck", !.args = <<r>>,
                              !.err = IF ChubbinessCheckThrows(Cur, r)
                                      THEN "CapacityWarning" ELSE ""]
    /\ UNCHANGED <<incrementor, indexers, emitter, microtasks, calls, busts, issued, removed,
                   facade, ops>>

NextRegistry ==
    \/ ops < MaxAdds /\ AddListener("a", Noop("a"), DefaultConfig)
    \/ SilenceWarnings(1)
    \/ last.op # "MetricIndexer.destroy" /\ IndexerDestroy(1)
    \/ ChubbinessCheck(1)

SpecRegistry == Init /\ [][NextRegistry]_vars

(***************************************************************************)
(* The two-event specification: listeners that only return, registered on  *)
(* either event; either event is fired by mark, by measure and by both     *)
(* plugins, whether it has a Registry or not.                              *)
(***************************************************************************)
NextEvents ==
    \/ Script /\ ~enabled /\ InitQueue(PluginNames, TRUE, nodeEnv)
    \/ \E e \in Events, c \in TableConfigs :
           Script /\ enabled /\ ops < MaxOps /\ AddListener(e, Noop(e), c)
    \/ \E k \in TimingKinds, e \in Events : Script /\ Timing(k, e)
    \/ \E p \in PluginNames, e \in Events : Script /\ Plugin(p, e, <<"metric">>)
    \/ RunFire
    \/ RunDeliver
    \/ RunSettle
    \/ RunResume
    \/ RunPrune

SpecEvents == Init /\ [][NextEvents]_vars

(***************************************************************************)
(* Reading the history.                                                    *)
(***************************************************************************)
CallIdx == 1..Len(calls)

BustIdx == 1..Len(busts)

\* the invocations bust b made of the listener registered as id
CallsOf(b, id) == {i \in CallIdx : calls[i].bust = b /\ calls[i].id = id}

\* the entries registered when bust b started
StartEntries(b) == {busts[b].entries[k] : k \in 1..Len(busts[b].entries)}

\* a passive delivery of bust b to id is still queued
DeliverPending(b, id) ==
    \E k \in 1..Len(microtasks) :
        /\ microtasks[k].type = "deliver"
        /\ microtasks[k].bust = b
        /\ microtasks[k].entry.id = id

\* all the deferred work of the firing that made bust b has run
Settled(b) ==
    \A k \in 1..Len(microtasks) :
        microtasks[k].type \in {"deliver", "settle", "resume", "prune"}
            => microtasks[k].bust # b

\* the place of an identifier in the order of registration
Pos(id) == CHOOSE k \in 1..Len(issued) : issued[k] = id

\* the callbacks of the entries bust b started with only return
OnlyReturns(b) == \A e \in StartEntries(b) : e.listener.kind = "noop"

\* none of them throws
NoneThrows(b) == \A e \in StartEntries(b) : e.listener.kind # "throw"

\* none of them touches the Registry
NoneMutates(b) == \A e \in StartEntries(b) : e.listener.kind \in {"noop", "throw"}

(***************************************************************************)
(* The claims.                                                             *)
(***************************************************************************)
\* C1: a listener registered with keepAlive = false is invoked at most once
\* in total, whatever the firings; stated here for callbacks that only
\* return, where it already fails.
C1_AtMostOnce ==
    \A i, j \in CallIdx :
        (/\ calls[i].id = calls[j].id
         /\ ~calls[i].config.keepAlive
         /\ calls[i].listener.kind = "noop") => i = j

\* C2: once a bust and its deferred work are over, every entry that was
\* registered when the bust started has been invoked exactly once by it,
\* also when callbacks add or remove listeners; stated here for callbacks
\* that do not throw, where it already fails.
C2_ExactlyOncePerBust ==
    \A b \in BustIdx :
        (Settled(b) /\ NoneThrows(b)) =>
            \A e \in StartEntries(b) : Cardinality(CallsOf(b, e.id)) = 1

\* C3: a keepAlive listener that was not explicitly removed is still
\* registered after a bust and has been invoked exactly once by it.
C3_KeepAliveOncePerBust ==
    \A b \in BustIdx :
        Settled(b) =>
            \A e \in StartEntries(b) :
                (e.config.keepAlive /\ e.id \notin removed) =>
                    /\ MapHas(indexers[busts[b].reg].queue, e.id)
                    /\ Cardinality(CallsOf(b, e.id)) = 1

\* C4: a bust of a Registry whose listeners are all non-passive and
\* non-keepAlive invokes each of them exactly once before it returns and
\* leaves size 0; stated here for callbacks that do not touch the Registry.
C4_SyncDeliveryEmpties ==
    \A b \in BustIdx :
        (/\ NoneMutates(b)
         /\ \A e \in StartEntries(b) : ~e.config.passive /\ ~e.config.keepAlive) =>
            /\ \A e \in StartEntries(b) :
                   /\ Cardinality(CallsOf(b, e.id)) = 1
                   /\ \A i \in CallsOf(b, e.id) : calls[i].sync
            /\ busts[b].sizeAtReturn = 0

\* C5: a passive listener is never invoked in the synchronous part of the
\* bust that delivers it; it is invoked, once, by the job that bust queued
\* for it, and that job has run before the bust's completion is signalled.
C5_PassiveDeferred ==
    /\ \A i \in CallIdx : calls[i].config.passive => ~calls[i].sync
    /\ \A b \in BustIdx : \A id \in busts[b].scheduled :
           IF DeliverPending(b, id)
           THEN CallsOf(b, id) = {}
           ELSE Cardinality(CallsOf(b, id)) = 1
    /\ \A b \in BustIdx : \A id \in busts[b].scheduled :
           busts[b].state \in {"fulfilled", "done", "pruneError"} => ~DeliverPending(b, id)

C5_Witness ==
    \E i \in CallIdx :
        /\ calls[i].config.passive
        /\ ~calls[i].sync
        /\ busts[calls[i].bust].state = "done"

\* C6: within one bust the non-passive listeners are invoked in the order
\* of their registration, and every one of them has been invoked when the
\* synchronous part of the bust is over; stated here for callbacks that do
\* not touch the Registry, where it already fails.
C6_AllSyncInOrder ==
    \A b \in BustIdx :
        NoneMutates(b) =>
            /\ \A e \in StartEntries(b) :
                   ~e.config.passive => \E i \in CallsOf(b, e.id) : calls[i].sync
            /\ \A i, j \in CallIdx :
                   (/\ i < j
                    /\ calls[i].bust = b /\ calls[j].bust = b
                    /\ ~calls[i].config.passive
                    /\ ~calls[j].config.passive) => Pos(calls[i].id) < Pos(calls[j].id)

\* C7: a passive listener removed after a bust scheduled its delivery and
\* before that delivery ran is not invoked by that bust.
C7_RemovedNotInvoked == \A i \in CallIdx : ~calls[i].cancelled

\* C8: removeEventListener(event, id) returns true when the event has a
\* Registry, whether or not it holds id, and null when it has none; when it
\* leaves the Registry empty the Registry is pruned, so that repeating the
\* removal returns null.
C8_RemoveReturns ==
    [][last'.op = "removeEventListener" =>
          LET e == last'.args[1]
              id == last'.args[2]
          IN  /\ last'.ret = IF emitter[e] # 0 THEN "true" ELSE "null"
              /\ last'.err = ""
              /\ (emitter[e] # 0 /\ MapKeys(indexers[emitter[e]].queue) \subseteq {id})
                     => emitter'[e] = 0]_vars

\* the second of two equal removals: the first one pruned the Registry
C8_Witness ==
    /\ last.op = "removeEventListener"
    /\ last.ret = "null"
    /\ last.args[2] \in removed
    /\ busts = <<>>

\* C9: after a firing of an event whose listeners are all non-keepAlive,
\* once the deferred work of the firing has run and no listener was added
\* meanwhile, the event has no entry in the Event Table.
C9_PrunedAfterFiring ==
    \A b \in BustIdx :
        (/\ Settled(b)
         /\ \A e \in StartEntries(b) : ~e.config.keepAlive
         /\ Len(issued) = busts[b].issuedAtStart) => emitter[busts[b].event] = 0

\* the string forms of 0, 1, 2, ... as literals
Decimal ==
    <<"0", "1", "2", "3", "4", "5", "6", "7", "8", "9", "10", "11", "12", "13", "14", "15">>

\* C10: on a fresh or just-reset allocator the k-th add returns the string
\* form of k - 1, and the identifiers returned are pairwise distinct.
C10_SequentialIdentifiers ==
    /\ \A k \in 1..Len(issued) : issued[k] = Decimal[k]
    /\ \A k, m \in 1..Len(issued) : issued[k] = issued[m] => k = m
    /\ (last.op = "addEventListener" /\ last.err = "") =>
           (Len(issued) > 0 /\ last.ret = issued[Len(issued)])

\* eleven adds after a reset, over both Registries: the last returns "10"
C10_Witness ==
    /\ Len(issued) = 11
    /\ last.op = "addEventListener"
    /\ last.ret = "10"
    /\ emitter["a"] # 0 /\ emitter["b"] # 0
    /\ ops > 11

\* the entries the Registries hold, each with the Registry that holds it
Held == UNION {{<<r, k>> : k \in 1..Len(indexers[r].queue)} : r \in 1..Len(indexers)}

\* C11: with no reset of the allocator, no two listeners registered at the
\* same time share an identifier, in one Registry or in two, and no
\* identifier is issued twice.
C11_IdentifiersUnique ==
    /\ \A x, y \in Held :
           indexers[x[1]].queue[x[2]].id = indexers[y[1]].queue[y[2]].id => x = y
    /\ \A k, m \in 1..Len(issued) : issued[k] = issued[m] => k = m
    /\ \A x \in Held : \E k \in 1..Len(issued) : issued[k] = indexers[x[1]].queue[x[2]].id

\* both events hold a listener, after a removal emptied a Registry
C11_Witness ==
    /\ emitter["a"] # 0 /\ emitter["b"] # 0
    /\ emitter["a"] # emitter["b"]
    /\ Len(issued) = 3
    /\ removed # {}
    /\ Cardinality(Held) = 2

C13_InvalidCall ==
    /\ last'.op = "addEventListener"
    /\ \/ ~enabled
       \/ last'.args[1] = ""
       \/ last'.args[2].kind = "notFunction"

\* the error validation is to raise for it
C13_Expected ==
    IF ~enabled THEN "NotInitialized"
    ELSE IF last'.args[1] = "" THEN "MissingEventName"
    ELSE "InvalidCallback"

\* C13: outside production, addEventListener fails with the not-initialized
\* error whenever the facade is not enabled, with the missing-event-name
\* error for an empty name and with the invalid-callback error for a
\* listener that is no function; it then stores nothing and consumes no
\* identifier.
C13_ValidationFails ==
    [][(nodeEnv # "production" /\ C13_InvalidCall) =>
          /\ last'.err = C13_Expected
          /\ UNCHANGED <<indexers, emitter, incrementor>>]_vars

\* C14: in production addEventListener neither validates nor checks the
\* capacity: every call stores the listener and returns an identifier not
\* issued before, also when the facade is not enabled, when the arguments are
\* invalid and when the Registry holds 20 listeners or more.
C14_ProductionRegisters ==
    [][(last'.op = "addEventListener" /\ nodeEnv = "production") =>
          LET e == last'.args[1]
              g == IndexerGet([indexers |-> indexers'], emitter'[e], last'.ret)
          IN  /\ last'.err = ""
              /\ \A k \in 1..Len(issued) : issued[k] # last'.ret
              /\ emitter'[e] # 0
              /\ g.found
              /\ g.listener = last'.args[2]
              /\ emitter[e] # 0 =>
                     /\ emitter'[e] = emitter[e]
                     /\ IndexerSize([indexers |-> indexers'], emitter[e])
                            = IndexerSize([indexers |-> indexers], emitter[e]) + 1]_vars

\* a listener registered as the 22nd of its Registry, the facade not enabled
C14_Witness ==
    /\ last.op = "addEventListener" /\ last.err = ""
    /\ nodeEnv = "production"
    /\ ~enabled
    /\ IndexerSize([indexers |-> indexers], emitter[last.args[1]]) = 22

\* C15: outside production, with the facade enabled and valid arguments,
\* addEventListener fails with the capacity warning when the event's
\* Registry holds 20 listeners or more, and then changes neither that
\* Registry, nor the Event Table, nor the identifier counter; it succeeds
\* when the Registry holds fewer or does not exist yet.
C15_CapacityWarning ==
    [][(/\ last'.op = "addEventListener"
        /\ nodeEnv # "production"
        /\ enabled
        /\ last'.args[1] # ""
        /\ last'.args[2].kind # "notFunction") =>
          LET e == last'.args[1] IN
          IF emitter[e] # 0 /\ IndexerSize([indexers |-> indexers], emitter[e]) >= 20
          THEN /\ last'.err = "CapacityWarning"
               /\ UNCHANGED <<indexers, emitter, incrementor>>
          ELSE /\ last'.err = ""
               /\ emitter'[e] # 0
               /\ IndexerGet([indexers |-> indexers'], emitter'[e], last'.ret).found]_vars

\* the 21st registration after init is refused: the Registry holds exactly 20
C15_Witness ==
    /\ last.op = "addEventListener"
    /\ last.err = "CapacityWarning"
    /\ nodeEnv = "development"
    /\ IndexerSize([indexers |-> indexers], emitter["a"]) = 20
    /\ incrementor = 20

\* the step is a call of the intercepted mark or measure
TimingCall == last'.op \in TimingKinds

FireStep == microtasks # <<>> /\ Job.type = "fire" /\ last'.op = ""

\* the invocations the step makes
NewCalls == (Len(calls) + 1)..Len(calls')

\* a call of mark or measure that did not raise defers one firing of its
\* name with the value it returns followed by its own arguments
C17_TimingSchedules ==
    TimingCall /\ last'.err = "" =>
        microtasks' = Append(microtasks,
                             FireTask(last'.args[1], <<last'.ret>> \o last'.args))

\* a deferred firing busts the Registry of its name with its arguments: the
\* listeners it invokes at once get them, and so do the deliveries it defers
FireBusts ==
    FireStep /\ emitter[Job.event] # 0 =>
        /\ Len(busts') = Len(busts) + 1
        /\ busts'[Len(busts')].reg = emitter[Job.event]
        /\ busts'[Len(busts')].params = Job.params
        /\ \A i \in NewCalls : calls'[i].params = Job.params
        /\ \A k \in Len(microtasks)..Len(microtasks') :
               microtasks'[k].type = "deliver" => microtasks'[k].params = Job.params

\* every invocation is made with the arguments of its bust, which never change
CallsGetBustParams ==
    /\ \A i \in NewCalls : calls'[i].params = busts'[calls'[i].bust].params
    /\ \A b \in BustIdx : busts'[b].params = busts[b].params
    /\ \A i \in CallIdx : calls'[i] = calls[i]

\* C17: the listeners of a name are invoked, when mark or measure is called
\* with that name, with the call's result first and then the call's
\* arguments in their order.
C17_ResultThenArguments ==
    [][C17_TimingSchedules /\ FireBusts /\ CallsGetBustParams]_vars

\* a passive and a non-passive listener have both been invoked with the
\* measure's result, its name and its start mark
C17_Witness ==
    \E i, j \in CallIdx :
        /\ calls[i].sync /\ ~calls[j].sync
        /\ calls[i].bust = calls[j].bust
        /\ calls[i].params = <<"PerformanceMeasure", "a", "start">>
        /\ calls[j].params = <<"PerformanceMeasure", "a", "start">>

\* the step is a call of the intercepted mark or measure whose host function
\* raises
HostRaises == TimingCall /\ last'.host = "throws"

\* C18 as stated: when the host function raises, the intercepted mark or
\* measure raises the same error to its caller.
C18_RaisesHostError == [][HostRaises => last'.err = "HostError"]_vars

\* C18: when the host function raises, the intercepted mark or measure does
\* not raise: it returns null, and the firing of its name is deferred all
\* the same, with null in the place of the result.
C18_HostErrorSuppressed ==
    [][HostRaises =>
          /\ last'.err = ""
          /\ last'.ret = "null"
          /\ microtasks' = Append(microtasks,
                                  FireTask(last'.args[1], <<"null">> \o last'.args))]_vars

\* a listener has been invoked for a measure whose host function raised
C18_Witness ==
    \E i \in CallIdx : calls[i].params = <<"null", "a", "start">>

\* the step is a call of a plugin callable
PluginCall == last'.op \in PluginNames

\* the call of the plugin callable hands p to the Registry of its event name:
\* at once, to the listeners it invokes and the deliveries it defers, or to
\* the firing it defers
Forwarded(p) ==
    /\ ProcessAfterCallStack(last'.op) =>
           microtasks' = Append(microtasks, FireTask(last'.args[1], p))
    /\ ~ProcessAfterCallStack(last'.op) /\ emitter[last'.args[1]] # 0 =>
           /\ Len(busts') = Len(busts) + 1
           /\ busts'[Len(busts')].reg = emitter[last'.args[1]]
           /\ busts'[Len(busts')].params = p
           /\ \A i \in NewCalls : calls'[i].params = p
           /\ \A k \in (Len(microtasks) + 1)..Len(microtasks') :
                  microtasks'[k].type = "deliver" => microtasks'[k].params = p

C20_ArgumentsAfterName ==
    [][/\ PluginCall => Forwarded(Tail(last'.args))
       /\ FireBusts
       /\ CallsGetBustParams]_vars

\* a passive and a non-passive listener have both been invoked by a plugin
\* callable given ("a", "m1", "m2")
C20_Witness ==
    \E i, j \in CallIdx :
        /\ calls[i].sync /\ ~calls[j].sync
        /\ calls[i].bust = calls[j].bust
        /\ calls[i].params = <<"m1", "m2">>
        /\ calls[j].params = <<"m1", "m2">>

\* the entries the Registry of the event holds when the call is made
EntriesBefore(event) ==
    IF emitter[event] = 0 THEN {}
    ELSE {indexers[emitter[event]].queue[k] : k \in 1..Len(indexers[emitter[event]].queue)}

\* C21: a plugin declared with processAfterCallStack invokes no listener
\* before its callable returns; a plugin declared without it has invoked
\* every non-passive listener of the event when its callable returns;
\* stated here for callbacks that do not touch the Registry, where it
\* already fails.
C21_PluginDispatch ==
    [][PluginCall =>
          IF ProcessAfterCallStack(last'.op)
          THEN calls' = calls
          ELSE (\A e \in EntriesBefore(last'.args[1]) : e.listener.kind \in {"noop", "throw"}) =>
                   \A e \in EntriesBefore(last'.args[1]) :
                       ~e.config.passive => \E i \in NewCalls : calls'[i].id = e.id]_vars

\* the step is a call of safetyWrap; its arguments
WrapCall == last'.op = "safetyWrap"

DestroyCall == last'.op = "destroy"

\* C23: after destroy the enabled flag, the dev-mode flag, the cached entry
\* points, the Event Table and the table of plugin callables have the values
\* they had before the first init.
C23_DestroyResets ==
    [][DestroyCall =>
          /\ enabled' = FALSE
          /\ isDev' = FALSE
          /\ cached' = [mark |-> "null", measure |-> "null"]
          /\ emitter' = [e \in Names |-> 0]
          /\ plugins' = {}]_vars

\* C24: after one or more init calls and a destroy, the host's mark and
\* measure are the functions the host had before the first init.
C24_DestroyRestoresHost ==
    [][DestroyCall => performance' = [mark |-> "native", measure |-> "native"]]_vars

\* C25: a bust invokes only listeners that were registered when it started:
\* a listener a callback adds during the bust is not invoked by that bust.
C25_StartEntriesOnly ==
    \A i \in CallIdx : \E e \in StartEntries(calls[i].bust) : e.id = calls[i].id

\* the event names that have a Registry in the Event Table
Tabled == {e \in Names : emitter[e] # 0}

\* C26: no Registry stored in the Event Table has zero listeners.
C26_NoEmptyRegistry == \A e \in Tabled : MapSize(indexers[emitter[e]].queue) > 0

\* the MetricIndexer objects constructed so far
Registries == 1..Len(indexers)

\* C27: the size of a Registry is the number of add calls made on it, minus
\* the remove calls that deleted one of its entries, minus the entries bust
\* deliveries retired from it, and that number is never negative.
C27_SizeLedger ==
    \A r \in Registries :
        /\ MapSize(indexers[r].queue) =
               indexers[r].added - indexers[r].removed - indexers[r].retired
        /\ indexers[r].added - indexers[r].removed - indexers[r].retired >= 0

\* a listener was added to a Registry; two overlapping busts delivered it,
\* and it was retired once
C27_Witness ==
    \E r \in Registries :
        /\ indexers[r].added = 1 /\ indexers[r].removed = 0 /\ indexers[r].retired = 1
        /\ Len(busts) = 2 /\ busts[1].reg = r /\ busts[2].reg = r
        /\ Len(calls) = 2
        /\ microtasks = <<>>

\* the step is a call of chubbinessCheck on the Registry last'.args[1]
ChubbyCall == last'.op = "chubbinessCheck"

\* C28: chubbinessCheck fails with the capacity warning exactly when the
\* Registry holds 20 entries or more and its warnings are not silenced, and
\* it leaves the Registry as it was.
C28_ChubbinessCheck ==
    [][ChubbyCall =>
          LET r == last'.args[1] IN
          /\ (last'.err = "CapacityWarning") <=>
                 (MapSize(indexers[r].queue) >= 20 /\ ~indexers[r].silenceWarnings)
          /\ last'.err \in {"", "CapacityWarning"}
          /\ indexers' = indexers]_vars

\* chubbinessCheck has failed on a Registry of exactly 20 entries
C28_Witness ==
    /\ last.op = "chubbinessCheck"
    /\ last.err = "CapacityWarning"
    /\ MapSize(indexers[last.args[1]].queue) = 20

\* the promise bust b returned is fulfilled
Completed(b) == busts[b].state \in {"fulfilled", "done", "pruneError"}

\* C29: when the promise a bust returned is resolved, every passive delivery
\* that bust scheduled has been invoked and, when the listener is not
\* keepAlive, the entry is retired; the pruning check of the firing runs
\* after that.
C29_CompletionAfterDeliveries ==
    \A b \in BustIdx :
        Completed(b) =>
            \A id \in busts[b].scheduled :
                /\ ~DeliverPending(b, id)
                /\ CallsOf(b, id) # {}
                /\ \A i \in CallsOf(b, id) :
                       ~calls[i].config.keepAlive =>
                           ~MapHas(indexers[busts[b].reg].queue, id)

\* the step invokes no listener, starts no bust and leaves the Event Table
\* and every Registry as they were
NothingFired ==
    /\ calls' = calls
    /\ busts' = busts
    /\ emitter' = emitter
    /\ indexers' = indexers

\* C30: firing an event name that has no Registry, through mark, measure or
\* a plugin, invokes no listener, creates no Registry and leaves the Event
\* Table unchanged: neither the call nor the firing it defers does.
C30_AbsentEventIgnored ==
    [][/\ TimingCall => NothingFired
       /\ PluginCall /\ emitter[last'.args[1]] = 0 => NothingFired
       /\ FireStep /\ emitter[Job.event] = 0 => NothingFired]_vars

\* the synchronous plugin was called for an event without a Registry while
\* the other event had listeners: none was invoked and the table is as before
C30_Witness ==
    /\ last.op = "onSync"
    /\ emitter[last.args[1]] = 0
    /\ \E e \in Tabled : MapSize(indexers[emitter[e]].queue) = 2
    /\ calls = <<>>
    /\ Len(indexers) = 1

\* the step is a call of init that was given a ready-callback
ReadyInit == last'.op = "init" /\ last'.args[3] = "function"

\* C31: init invokes the ready-callback exactly once, with the facade, and
\* when it does the facade is enabled, mark and measure are intercepted if
\* usePerformanceAPI is true, and every declared plugin is callable.
C31_ReadyAfterInit ==
    [][ReadyInit =>
          /\ Len(last'.ready) = 1
          /\ last'.ready[1].arg = "MetricsQueue"
          /\ last'.ready[1].enabled
          /\ last'.args[2] => last'.ready[1].performance = Middleware
          /\ last'.args[1] \subseteq last'.ready[1].plugins]_vars

\* C32: the pruning step that follows a firing never raises an error, also
\* when the Registry of the event left the Event Table before the
\* deliveries of the firing were over.
C32_PruneNeverRaises == \A b \in BustIdx : busts[b].state # "pruneError"

\* the MetricIndexer objects that are in the Event Table
InTable == {emitter[e] : e \in Tabled}

\* C33: a Registry leaves the Event Table only when it holds no listeners:
\* every listener that is still registered is held by the Registry that the
\* Event Table stores under the event name it was registered for.
C33_HeldInTable ==
    /\ \A r \in Registries \ InTable : MapSize(indexers[r].queue) = 0
    /\ \A e \in Tabled : \A k \in 1..Len(indexers[emitter[e]].queue) :
           indexers[emitter[e]].queue[k].listener.ev = e

\* the first Registry of an event was pruned while a firing was under way;
\* a listener registered since is held by the second one
C33_Witness ==
    /\ Len(indexers) = 2
    /\ emitter["a"] = 2
    /\ MapSize(indexers[2].queue) = 1
    /\ Len(busts) = 1 /\ busts[1].reg = 1
    /\ microtasks # <<>>

\* C34: outside production no Registry in the Event Table ever holds more
\* than 20 listeners.
C34_AtMostTwenty ==
    nodeEnv # "production" =>
        \A e \in Tabled : MapSize(indexers[emitter[e]].queue) <= 20

\* C35: a callback that raises does not keep the other entries a bust
\* started with from being invoked: once the bust and its deferred work are
\* over, each of them that was not removed has been invoked by it; stated
\* here for callbacks that return or raise and do nothing else.
C35_FailureIsolated ==
    \A b \in BustIdx :
        (Settled(b) /\ NoneMutates(b)) =>
            \A e \in StartEntries(b) : e.id \notin removed => CallsOf(b, e.id) # {}

\* C36: a non-keepAlive listener whose callback raised is retired by the
\* bust that invoked it: when that bust is over its Registry no longer holds
\* it, and no later bust invokes it again.
C36_RetiredAfterFailure ==
    \A i \in CallIdx :
        (calls[i].listener.kind = "throw" /\ ~calls[i].config.keepAlive) =>
            /\ Settled(calls[i].bust) =>
                   ~MapHas(indexers[busts[calls[i].bust].reg].queue, calls[i].id)
            /\ \A j \in CallIdx : calls[j].id = calls[i].id => j = i

\* C37: within one bust every invocation of a non-passive entry comes before
\* every invocation of a passive entry, whatever the order of registration.
C37_SyncBeforePassive ==
    \A i, j \in CallIdx :
        (/\ calls[i].bust = calls[j].bust
         /\ ~calls[i].config.passive
         /\ calls[j].config.passive) => i < j

\* one bust invoked a non-passive listener and then a passive one that was
\* registered before it
C37_Witness ==
    /\ Len(calls) = 2
    /\ calls[1].bust = calls[2].bust
    /\ ~calls[1].config.passive /\ calls[2].config.passive
    /\ Pos(calls[2].id) < Pos(calls[1].id)

\* the event name a step works on: the one given to the call the application
\* makes, or the one of the firing whose deferred work runs
StepEvent ==
    IF last'.op \in {"removeEventListener"} \cup PluginNames \cup TimingKinds
    THEN last'.args[1]
    ELSE IF Job.type = "fire" THEN Job.event ELSE busts[Job.bust].event

\* the step is a removeEventListener call, a firing, or deferred work of one
EventStep ==
    \/ last'.op \in {"removeEventListener"} \cup PluginNames \cup TimingKinds
    \/ last'.op = "" /\ microtasks # <<>>

\* C38: a firing of event A, its deferred work included, invokes only
\* listeners registered under A, and neither it nor removeEventListener(A, id)
\* changes the Event Table entry or the Registry of any other event, whatever
\* event id was issued for.
C38_EventFrame ==
    [][EventStep =>
          /\ \A i \in NewCalls : calls'[i].listener.ev = StepEvent
          /\ \A e \in Names \ {StepEvent} :
                 /\ emitter'[e] = emitter[e]
                 /\ emitter[e] # 0 => indexers'[emitter[e]] = indexers[emitter[e]]]_vars

\* after a firing of "a", removeEventListener("a", "1") was called with the
\* identifier of a listener of "b", which the Registry of "b" still holds
C38_Witness ==
    /\ last.op = "removeEventListener"
    /\ last.args = <<"a", "1">>
    /\ last.ret = "true"
    /\ emitter["b"] # 0
    /\ MapHas(indexers[emitter["b"]].queue, "1")
    /\ \E b \in BustIdx : busts[b].event = "a" /\ CallsOf(b, "0") # {}

====
